---- MODULE Spec2Model ----
(***************************************************************************)
(* Comparison logging (cmplog) of libafl_qemu: slot id allocation          *)
(* (gen_unique_cmp_ids, gen_hashed_cmp_ids), the trace_cmpN recorders and  *)
(* the call-site scanner QemuCmpLogRoutinesHelper::gen_blocks_calls.       *)
(***************************************************************************)
EXTENDS Integers, Sequences, FiniteSets, TLC

\* ---------------------------------------------------------------- bounds
\* log2 of the number of rows of the capture map (CMPLOG_MAP_W is a power of two)
WBits == 1
\* guest addresses are 0 .. NumAddr-1
NumAddr == 4
\* most call-site hook registrations kept by the emulator
MaxHooks == 3
\* decode addresses of one scan
MaxIaddr == 12

CMPLOG_MAP_W == 2 ^ WBits
GuestAddr == 0 .. (NumAddr - 1)

\* Option<T>: None, or Some(x)
None == << >>
Some(x) == << x >>
is_some(o) == o # None
unwrap(o) == o[1]

\* ---------------------------------------------------------------- helpers
RECURSIVE BitAnd(_, _)
\* a & b on non-negative integers
BitAnd(a, b) ==
    IF a = 0 \/ b = 0 THEN 0
    ELSE (a % 2) * (b % 2) + 2 * BitAnd(a \div 2, b \div 2)

\* helper::hash_me: a fixed mixing function of the address (one byte kept here)
hash_me(x) == ((x \div 2) + 3 * x + 1) % 256

\* QemuInstrumentationFilter::allowed: a filter is the set of addresses it allows
allowed(filter, addr) == addr \in filter

\* the filters a helper is constructed with: QemuInstrumentationFilter::None
\* (allows every address) and a deny list of address 1
Filters == {GuestAddr, GuestAddr \ {1}}

\* must_instrument of a helper
must_instrument(helper, addr) == allowed(unwrap(helper), addr)
\* a gate that is never consulted
rejects_never(helper, addr) == FALSE

\* if let Some(h) = match_helper_mut() { if !h.must_instrument(pc) { return None } }
rejects(helper, addr) == is_some(helper) /\ ~must_instrument(helper, addr)

QemuCmpsMapMetadata_new == [map |-> << >>, current_id |-> 0]

\* ---------------------------------------------------------------- guest code
\* what disasm_count(code, iaddr, 1) yields at an address: Err, Ok(empty) or
\* Ok(one instruction) with its groups (in the order insn_detail lists them)
\* and its length in bytes
Insn(groups, len) == [decode |-> "insn", groups |-> groups, len |-> len]
DecodeErr == [decode |-> "err", groups |-> << >>, len |-> 0]
DecodeEmpty == [decode |-> "empty", groups |-> << >>, len |-> 0]
\* Ok(one instruction) for which insn_detail returns Err
InsnNoDetail == [decode |-> "nodetail", groups |-> << >>, len |-> 1]

StopGroups == {"CS_GRP_RET", "CS_GRP_INVALID", "CS_GRP_JUMP", "CS_GRP_IRET",
               "CS_GRP_PRIVILEGE"}

\* guest code images: the instruction decoded at address a is image[a + 1];
\* bytes outside the image do not decode
\* a call, a return, and a call behind the return
Image1 ==
    << Insn(<< "OTHER" >>, 1), Insn(<< "CS_GRP_CALL", "MODE" >>, 1),
       Insn(<< "CS_GRP_RET" >>, 1), Insn(<< "CS_GRP_CALL" >>, 1) >>
\* two calls, the first of two bytes, and bytes that do not decode
Image2 ==
    << Insn(<< "CS_GRP_CALL" >>, 2), Insn(<< "CS_GRP_JUMP" >>, 1),
       Insn(<< "CS_GRP_CALL" >>, 1), DecodeEmpty >>
\* a call that the decoder also lists as a jump
Image3 ==
    << Insn(<< >>, 1), Insn(<< "CS_GRP_CALL", "CS_GRP_JUMP" >>, 1),
       Insn(<< "CS_GRP_CALL" >>, 1), Insn(<< "CS_GRP_IRET" >>, 1) >>
\* a privileged instruction that the decoder also lists as a call
Image4 ==
    << Insn(<< "CS_GRP_CALL" >>, 1), Insn(<< "CS_GRP_PRIVILEGE", "CS_GRP_CALL" >>, 1),
       Insn(<< "CS_GRP_INVALID" >>, 1), DecodeErr >>
\* a call, then an instruction the decoder gives no detail for
Image5 ==
    << Insn(<< "CS_GRP_CALL" >>, 1), InsnNoDetail,
       Insn(<< "CS_GRP_CALL" >>, 1), Insn(<< "CS_GRP_RET" >>, 1) >>
\* ARM code: the cell of an even address is what the decoder yields there in
\* Arm mode (4 bytes), the cell of an odd address what it yields in Thumb mode
\* for the halfword at that address less its low bit (2 or 4 bytes)
Image6 ==
    << Insn(<< "CS_GRP_CALL" >>, 4), Insn(<< "CS_GRP_CALL" >>, 2),
       DecodeErr, Insn(<< "OTHER" >>, 4),
       Insn(<< "CS_GRP_JUMP" >>, 4), DecodeErr,
       DecodeErr, Insn(<< "CS_GRP_CALL", "CS_GRP_JUMP" >>, 2) >>
Images == {Image1, Image2, Image3, Image4, Image5, Image6}

disasm_count(image, iaddr) ==
    IF iaddr + 1 \in DOMAIN image THEN image[iaddr + 1] ELSE DecodeErr

VARIABLES
    cmplog_helper,   \* Option<QemuCmpLogHelper>: its filter
    child_helper,    \* Option<QemuCmpLogChildHelper>: its filter
    routines_helper, \* Option<QemuCmpLogRoutinesHelper>: its filter
    code,            \* the guest code
    metadata,        \* Option<QemuCmpsMapMetadata> of the fuzzing state
    site,            \* the comparison the guest executes: Option<[pc, id]>
    cmplog_map,      \* the capture map: row -> Option<[shape, v0, v1]>
    hooks,           \* the call-site hooks installed in the emulator, in order
    scan,            \* the position of gen_blocks_calls in its disasm loop
    last,            \* the last operation called: its name and arguments
    ret,             \* what it returned: Option<u64>
    aborted,         \* the process panicked
    alloc_log,       \* <<pc, id>> of every first Some(id) of gen_unique_cmp_ids, in order
    cpu_target,      \* cfg(cpu_target): "arm" or another target
    emulation_mode,  \* cfg(emulation_mode): "usermode" or "systemmode"
    cs_mode,         \* h.cs: its mode and the address set_mode derived it from
    cmplog_enabled,  \* CMPLOG_ENABLED
    stage,           \* StdMutationalPushStage: current_corpus_id, testcases_to_do, testcases_done
    cycle            \* where the caller of the push stage stands in its cycle

vars == << cmplog_helper, child_helper, routines_helper, code, metadata, site,
           cmplog_map, hooks, scan, last, ret, aborted, alloc_log,
           cpu_target, emulation_mode, cs_mode, cmplog_enabled, stage, cycle >>

helpers == << cmplog_helper, child_helper, routines_helper, code >>
\* what the cmplog callbacks other than the scanner only read
build == << cpu_target, emulation_mode >>
env == << build, cs_mode, cmplog_enabled >>
push_stage == << stage, cycle >>

\* StdMutationalPushStage::new
StdMutationalPushStage_new ==
    [current_corpus_id |-> None, testcases_to_do |-> 0, testcases_done |-> 0]
\* the calls made on the stage since its last init: pos is "ready" before a
\* pre_exec and "running" before a post_exec while init, pre_exec and
\* post_exec alternated and every post_exec succeeded, "finished" when
\* pre_exec then returned None, "broken" when the calls left that order;
\* returned and errors count the Some(Ok(input)) and Some(Err(e)) of pre_exec;
\* init_id is the corpus id init worked on, work_id the one set last since
NoCycle == [pos |-> "new", returned |-> 0, errors |-> 0,
            init_id |-> None, work_id |-> None, cleared |-> TRUE]

\* the decoder as QemuCmpLogRoutinesHelper::new builds it
NoMode == [mode |-> "Arm", from |-> None]

NoCall == [op |-> "none", pc |-> 0]
NoScan == [active |-> FALSE, pc |-> 0, iaddr |-> 0, first |-> 1, read |-> << >>]
Rows == 0 .. (CMPLOG_MAP_W - 1)

Init ==
    /\ cmplog_helper \in {None} \cup {Some(f) : f \in Filters}
    /\ child_helper \in {None} \cup {Some(f) : f \in Filters}
    /\ routines_helper \in {None} \cup {Some(f) : f \in Filters}
    /\ code \in Images
    /\ metadata = None
    /\ site = None
    /\ cmplog_map = [k \in Rows |-> None]
    /\ hooks = << >>
    /\ scan = NoScan
    /\ last = NoCall
    /\ ret = None
    /\ aborted = FALSE
    /\ alloc_log = << >>
    /\ cpu_target \in {"arm", "x86_64"}
    /\ emulation_mode \in {"usermode", "systemmode"}
    /\ cs_mode = NoMode
    /\ cmplog_enabled = 0
    /\ stage = StdMutationalPushStage_new
    /\ cycle = NoCycle

\* no hook runs while another one does: one guest thread
idle == ~aborted /\ ~scan.active

\* ---------------------------------------------------------------- allocators
logged(log) == {log[i][1] : i \in DOMAIN log}

\* the hook framework emits the trace call of the comparison at pc when the
\* generator returned Some(id), and none when it returned None
instrument(pc, r) == IF is_some(r) THEN Some([pc |-> pc, id |-> unwrap(r)]) ELSE None

\* the counter advanced without the wrap
next_id_nowrap(id) == id + 1

\* the next counter value of stable allocation
next_id(id) == BitAnd(id + 1, CMPLOG_MAP_W - 1)

\* an insert that does not look the address up first
entry_insert(meta, pc) ==
    [map |-> (pc :> meta.current_id) @@ meta.map,
     current_id |-> BitAnd(meta.current_id + 1, CMPLOG_MAP_W - 1)]

\* an insert that evicts the entries that hold the id it hands out
entry_or_insert_evict(meta, pc) ==
    IF pc \in DOMAIN meta.map THEN meta
    ELSE [map |-> (pc :> meta.current_id) @@
                  [a \in {b \in DOMAIN meta.map : meta.map[b] # meta.current_id} |-> meta.map[a]],
          current_id |-> BitAnd(meta.current_id + 1, CMPLOG_MAP_W - 1)]

\* an insert that leaves the counter where it is
entry_or_insert_nocount(meta, pc) ==
    IF pc \in DOMAIN meta.map THEN meta
    ELSE [map |-> (pc :> meta.current_id) @@ meta.map,
          current_id |-> meta.current_id]

\* map.entry(pc).or_insert_with(|| { current_id = next; id })
entry_or_insert(meta, pc) ==
    IF pc \in DOMAIN meta.map THEN meta
    ELSE [map |-> (pc :> meta.current_id) @@ meta.map,
          current_id |-> next_id(meta.current_id)]

gen_unique_cmp_ids(pc, has_state) ==
    /\ idle
    /\ last' = [op |-> "gen_unique_cmp_ids", pc |-> pc]
    /\ UNCHANGED << helpers, env, push_stage, cmplog_map, hooks, scan >>
    /\ IF rejects(cmplog_helper, pc)
       THEN /\ ret' = None
            /\ site' = instrument(pc, None)
            /\ UNCHANGED << metadata, aborted, alloc_log >>
       ELSE IF ~has_state
       THEN /\ aborted' = TRUE
            /\ ret' = None
            /\ UNCHANGED << metadata, site, alloc_log >>
       ELSE LET meta0 == IF metadata = None THEN QemuCmpsMapMetadata_new
                         ELSE unwrap(metadata)
                meta1 == entry_or_insert(meta0, pc)
                id == meta1.map[pc]
            IN /\ metadata' = Some(meta1)
               /\ ret' = Some(id)
               /\ site' = instrument(pc, Some(id))
               /\ alloc_log' = IF pc \in logged(alloc_log) THEN alloc_log
                               ELSE Append(alloc_log, << pc, id >>)
               /\ UNCHANGED aborted

\* the hash used without the mask
hashed_id_nomask(pc) == hash_me(pc)

\* hash_me(pc) & (CMPLOG_MAP_W - 1)
hashed_id(pc) == BitAnd(hash_me(pc), CMPLOG_MAP_W - 1)

\* a hashed generator that reuses the id the fuzzing state holds for pc
gen_hashed_cmp_ids_shared(pc, has_state) ==
    /\ idle
    /\ last' = [op |-> "gen_hashed_cmp_ids", pc |-> pc]
    /\ ret' = IF rejects(child_helper, pc) THEN None
              ELSE IF is_some(metadata) /\ pc \in DOMAIN unwrap(metadata).map
              THEN Some(unwrap(metadata).map[pc])
              ELSE Some(hashed_id(pc))
    /\ site' = instrument(pc, ret')
    /\ UNCHANGED << helpers, env, push_stage, metadata, cmplog_map, hooks, scan, aborted, alloc_log >>

gen_hashed_cmp_ids(pc, has_state) ==
    /\ idle
    /\ last' = [op |-> "gen_hashed_cmp_ids", pc |-> pc]
    /\ ret' = IF rejects(child_helper, pc) THEN None ELSE Some(hashed_id(pc))
    /\ site' = instrument(pc, ret')
    /\ UNCHANGED << helpers, env, push_stage, metadata, cmplog_map, hooks, scan, aborted, alloc_log >>

\* ---------------------------------------------------------------- recorder
\* __libafl_targets_cmplog_instructions(k, shape, arg1, arg2): row k of the
\* capture map is overwritten; a row outside the map is not written
cmplog_instructions(map, k, shape, arg1, arg2) ==
    IF k \in DOMAIN map
    THEN [map EXCEPT ![k] = Some([shape |-> shape, v0 |-> arg1, v1 |-> arg2])]
    ELSE map

\* the trace_cmpN_cmplog callbacks: the capture map after the call
trace_cmp1_cmplog(map, id, v0, v1) == cmplog_instructions(map, id, 1, v0, v1)
\* trace_cmp2_cmplog with the shape of trace_cmp1_cmplog
trace_cmp2_cmplog_shape1(map, id, v0, v1) == cmplog_instructions(map, id, 1, v0, v1)

trace_cmp2_cmplog(map, id, v0, v1) == cmplog_instructions(map, id, 2, v0, v1)
trace_cmp4_cmplog(map, id, v0, v1) == cmplog_instructions(map, id, 4, v0, v1)
trace_cmp8_cmplog(map, id, v0, v1) == cmplog_instructions(map, id, 8, v0, v1)

trace_cmp_cmplog(n, map, id, v0, v1) ==
    CASE n = 1 -> trace_cmp1_cmplog(map, id, v0, v1)
      [] n = 2 -> trace_cmp2_cmplog(map, id, v0, v1)
      [] n = 4 -> trace_cmp4_cmplog(map, id, v0, v1)
      [] n = 8 -> trace_cmp8_cmplog(map, id, v0, v1)

\* the guest executes the instrumented comparison of n bytes with operands v0, v1
exec_cmp(n, v0, v1) ==
    /\ idle
    /\ is_some(site)
    /\ last' = [op |-> "trace_cmp", pc |-> unwrap(site).pc, id |-> unwrap(site).id,
                n |-> n, v0 |-> v0, v1 |-> v1,
                over |-> is_some(cmplog_map[unwrap(site).id])]
    /\ cmplog_map' = trace_cmp_cmplog(n, cmplog_map, unwrap(site).id, v0, v1)
    /\ ret' = None
    /\ UNCHANGED << helpers, env, push_stage, metadata, site, hooks, scan, aborted, alloc_log >>

\* ---------------------------------------------------------------- scanner
\* Emulator::set_hook(addr, callback, data, false): one more registration
set_hook(hs, addr, k) == Append(hs, [addr |-> addr, k |-> k])

\* the slot id gen_blocks_calls binds to the hook of the call decoded at
\* insn_address in the block that starts at pc
call_site_id(pc, insn_address) == BitAnd(hash_me(pc), CMPLOG_MAP_W - 1)

RECURSIVE walk_groups_nobreak(_, _, _, _, _)
\* the loop over the groups without the break 'disasm arm
walk_groups_nobreak(groups, i, pc, insn_address, hs) ==
    IF i > Len(groups) THEN [hooks |-> hs, brk |-> FALSE]
    ELSE IF groups[i] = "CS_GRP_CALL"
    THEN walk_groups_nobreak(groups, i + 1, pc, insn_address,
                             set_hook(hs, insn_address, BitAnd(hash_me(pc), CMPLOG_MAP_W - 1)))
    ELSE walk_groups_nobreak(groups, i + 1, pc, insn_address, hs)

RECURSIVE walk_groups(_, _, _, _, _)
\* for detail in insn_detail.groups(): the hooks afterwards and whether the
\* loop left with break 'disasm
walk_groups(groups, i, pc, insn_address, hs) ==
    IF i > Len(groups) THEN [hooks |-> hs, brk |-> FALSE]
    ELSE IF groups[i] = "CS_GRP_CALL"
    THEN walk_groups(groups, i + 1, pc, insn_address,
                     set_hook(hs, insn_address, call_site_id(pc, insn_address)))
    ELSE IF groups[i] \in StopGroups THEN [hooks |-> hs, brk |-> TRUE]
    ELSE walk_groups(groups, i + 1, pc, insn_address, hs)

\* if pc & 1 == 1 { ArchMode::Thumb } else { ArchMode::Arm }
arch_mode(pc) == IF BitAnd(pc, 1) = 1 THEN "Thumb" ELSE "Arm"

\* gen_blocks_calls without the set_mode of the arm target
gen_blocks_calls_nomode(pc) ==
    /\ idle
    /\ Len(hooks) < MaxHooks
    /\ last' = [op |-> "gen_blocks_calls", pc |-> pc]
    /\ ret' = None
    /\ scan' = [active |-> is_some(routines_helper) /\ must_instrument(routines_helper, pc),
                pc |-> pc, iaddr |-> pc, first |-> Len(hooks) + 1, read |-> << >>]
    /\ UNCHANGED << helpers, env, push_stage, metadata, site,
                    cmplog_map, hooks, aborted, alloc_log >>

\* gen_blocks_calls up to its disasm loop
gen_blocks_calls(pc) ==
    /\ idle
    /\ Len(hooks) < MaxHooks
    /\ last' = [op |-> "gen_blocks_calls", pc |-> pc]
    /\ ret' = None
    /\ scan' = [active |-> is_some(routines_helper) /\ must_instrument(routines_helper, pc),
                pc |-> pc, iaddr |-> pc, first |-> Len(hooks) + 1, read |-> << >>]
    /\ cs_mode' = IF cpu_target = "arm" /\ is_some(routines_helper)
                      /\ must_instrument(routines_helper, pc)
                  THEN [mode |-> arch_mode(pc), from |-> Some(pc)] ELSE cs_mode
    /\ UNCHANGED << helpers, build, cmplog_enabled, push_stage, metadata, site,
                    cmplog_map, hooks, aborted, alloc_log >>

\* the guest address whose bytes the buffer code holds when the loop decodes
\* at iaddr: emu.g2h(iaddr) in usermode, emu.read_mem(pc, code) in systemmode
read_addr(pc, iaddr) == IF emulation_mode = "systemmode" THEN pc ELSE iaddr

\* one iteration of a disasm loop that unwraps the decoder's result
disasm_step_unwrap ==
    /\ ~aborted
    /\ scan.active
    /\ scan.iaddr < MaxIaddr
    /\ LET from == read_addr(scan.pc, scan.iaddr)
           insn == disasm_count(code, from)
           w == walk_groups(insn.groups, 1, scan.pc, scan.iaddr, hooks)
       IN IF insn.decode # "insn"
          THEN /\ scan' = [scan EXCEPT !.active = FALSE, !.read = Append(@, from)]
               /\ aborted' = TRUE
               /\ UNCHANGED hooks
          ELSE /\ hooks' = w.hooks
               /\ scan' = IF w.brk
                          THEN [scan EXCEPT !.active = FALSE, !.read = Append(@, from)]
                          ELSE [scan EXCEPT !.iaddr = scan.iaddr + insn.len,
                                            !.read = Append(@, from)]
               /\ UNCHANGED aborted
    /\ UNCHANGED << helpers, env, push_stage, metadata, site, cmplog_map, last, ret, alloc_log >>

\* one iteration of the disasm loop
disasm_step ==
    /\ ~aborted
    /\ scan.active
    /\ scan.iaddr < MaxIaddr
    /\ LET from == read_addr(scan.pc, scan.iaddr)
           insn == disasm_count(code, from)
           w == walk_groups(insn.groups, 1, scan.pc, scan.iaddr, hooks)
       IN IF insn.decode \in {"err", "empty"}
          THEN /\ scan' = [scan EXCEPT !.active = FALSE, !.read = Append(@, from)]
               /\ UNCHANGED << hooks, aborted >>
          ELSE IF insn.decode = "nodetail"
          THEN \* h.cs.insn_detail(insn).unwrap() panics
               /\ scan' = [scan EXCEPT !.active = FALSE, !.read = Append(@, from)]
               /\ aborted' = TRUE
               /\ UNCHANGED hooks
          ELSE /\ hooks' = w.hooks
               /\ scan' = IF w.brk
                          THEN [scan EXCEPT !.active = FALSE, !.read = Append(@, from)]
                          ELSE [scan EXCEPT !.iaddr = scan.iaddr + insn.len,
                                            !.read = Append(@, from)]
               /\ UNCHANGED aborted
    /\ UNCHANGED << helpers, env, push_stage, metadata, site, cmplog_map, last, ret, alloc_log >>

\* ---------------------------------------------------------------- call arguments
\* the guest base added by emu.g2h
guest_base == 16
\* emu.g2h: the host address of a guest address
g2h(a) == a + guest_base

\* Option::unwrap_or
unwrap_or(o, d) == IF is_some(o) THEN unwrap(o) ELSE d

\* __libafl_targets_cmplog_routines(k, ptr1, ptr2): row k of the capture map
\* takes the two buffers (a row of shape 0 is a pair of buffers)
cmplog_routines(map, k, ptr1, ptr2) ==
    IF k \in DOMAIN map
    THEN [map EXCEPT ![k] = Some([shape |-> 0, v0 |-> ptr1, v1 |-> ptr2])]
    ELSE map

\* what read_function_argument yields: Err, or Ok(a guest address)
ArgReads == {None, Some(0), Some(2), Some(3)}

\* on_call without the test of CMPLOG_ENABLED
on_call_always(i, r0, r1) ==
    /\ idle
    /\ i \in DOMAIN hooks
    /\ last' = [op |-> "on_call", pc |-> hooks[i].addr, k |-> hooks[i].k,
                r0 |-> r0, r1 |-> r1, enabled |-> cmplog_enabled]
    /\ ret' = None
    /\ cmplog_map' = IF unwrap_or(r0, 0) = 0 \/ unwrap_or(r1, 0) = 0 THEN cmplog_map
                     ELSE cmplog_routines(cmplog_map, hooks[i].k,
                                          g2h(unwrap_or(r0, 0)), g2h(unwrap_or(r1, 0)))
    /\ UNCHANGED << helpers, env, push_stage, metadata, site, hooks, scan, aborted, alloc_log >>

\* the guest reaches the address of the installed hook i; r0 and r1 are what
\* reading the first two call arguments yields
on_call(i, r0, r1) ==
    /\ idle
    /\ i \in DOMAIN hooks
    /\ last' = [op |-> "on_call", pc |-> hooks[i].addr, k |-> hooks[i].k,
                r0 |-> r0, r1 |-> r1, enabled |-> cmplog_enabled]
    /\ ret' = None
    /\ LET a0 == unwrap_or(r0, 0)
           a1 == unwrap_or(r1, 0)
       IN cmplog_map' = IF cmplog_enabled = 0 THEN cmplog_map
                        ELSE IF a0 = 0 \/ a1 = 0 THEN cmplog_map
                        ELSE cmplog_routines(cmplog_map, hooks[i].k, g2h(a0), g2h(a1))
    /\ UNCHANGED << helpers, env, push_stage, metadata, site, hooks, scan, aborted, alloc_log >>

\* the executor switches CMPLOG_ENABLED around a run
set_cmplog_enabled(v) ==
    /\ idle
    /\ cmplog_enabled # v
    /\ cmplog_enabled' = v
    /\ last' = [op |-> "set_cmplog_enabled", pc |-> 0]
    /\ ret' = None
    /\ UNCHANGED << helpers, build, cs_mode, push_stage, metadata, site, cmplog_map,
                    hooks, scan, aborted, alloc_log >>

\* ---------------------------------------------------------------- push stage
DEFAULT_MUTATIONAL_MAX_ITERATIONS == 128
CorpusIds == {0, 1}
\* scheduler.next(state): Err or Ok(corpus id)
SchedulerNext == {None} \cup {Some(i) : i \in CorpusIds}
\* rand.below(n) is one of 0 .. n-1; the values drawn here
below(n) == {r \in 0 .. (n - 1) : r < 3 \/ r = n - 1}
\* post_exec calls made in a row
MaxDone == DEFAULT_MUTATIONAL_MAX_ITERATIONS + 2

\* what the push stage leaves alone
cmplog == << helpers, env, metadata, site, cmplog_map, hooks, scan, ret, alloc_log >>

\* the calls left the order of a cycle
broken(c) == [c EXCEPT !.pos = "broken", !.returned = 0, !.errors = 0]

set_current_corpus_id(id) ==
    /\ ~aborted
    /\ stage' = [stage EXCEPT !.current_corpus_id = Some(id)]
    /\ cycle' = [cycle EXCEPT !.cleared = FALSE,
                              !.work_id = IF is_some(cycle.init_id) THEN Some(id) ELSE None]
    /\ last' = [op |-> "set_current_corpus_id", pc |-> 0, id |-> id]
    /\ UNCHANGED << cmplog, aborted >>

\* iterations without the 1 +
iterations_below(r) == r

\* 1 + state.rand_mut().below(DEFAULT_MUTATIONAL_MAX_ITERATIONS), r the value drawn
iterations(r) == 1 + r

init(sched, r) ==
    /\ ~aborted
    /\ LET asked == stage.current_corpus_id = None
           ok == ~asked \/ is_some(sched)
           id == IF asked THEN sched ELSE stage.current_corpus_id
       IN /\ last' = [op |-> "init", pc |-> 0, asked |-> asked, sched |-> sched,
                      res |-> IF ok THEN "Ok" ELSE "Err", before |-> stage]
          /\ stage' = IF ok
                      THEN [current_corpus_id |-> id, testcases_to_do |-> iterations(r),
                            testcases_done |-> 0]
                      ELSE stage
          /\ cycle' = IF ok
                      THEN [pos |-> "ready", returned |-> 0, errors |-> 0,
                            init_id |-> id, work_id |-> id, cleared |-> FALSE]
                      ELSE cycle
    /\ UNCHANGED << cmplog, aborted >>

\* a test that lets one more input through
cycle_over_gt(st) == st.testcases_done > st.testcases_to_do

\* if self.testcases_done >= self.testcases_to_do
cycle_over(st) == st.testcases_done >= st.testcases_to_do

pre_exec(corpus_ok, mutate_ok) ==
    /\ ~aborted
    /\ LET over == cycle_over(stage)
           res == IF over THEN "None"
                  ELSE IF stage.current_corpus_id = None THEN "panic"
                  ELSE IF ~corpus_ok THEN "Err"
                  ELSE IF ~mutate_ok THEN "panic"
                  ELSE "Input"
       IN /\ last' = [op |-> "pre_exec", pc |-> 0, res |-> res,
                      read |-> IF over THEN None ELSE stage.current_corpus_id]
          /\ aborted' = (res = "panic")
          /\ cycle' = IF cycle.pos = "ready" /\ res # "panic"
                      THEN [cycle EXCEPT
                              !.pos = IF res = "None" THEN "finished" ELSE "running",
                              !.returned = @ + (IF res = "Input" THEN 1 ELSE 0),
                              !.errors = @ + (IF res = "Err" THEN 1 ELSE 0)]
                      ELSE broken(cycle)
    /\ UNCHANGED << cmplog, stage >>

post_exec(evaluate_ok, mutator_ok) ==
    /\ ~aborted
    /\ stage.testcases_done < MaxDone
    /\ LET ok == evaluate_ok /\ mutator_ok
       IN /\ last' = [op |-> "post_exec", pc |-> 0, res |-> IF ok THEN "Ok" ELSE "Err"]
          /\ stage' = IF ok THEN [stage EXCEPT !.testcases_done = @ + 1] ELSE stage
          /\ cycle' = IF ok /\ cycle.pos = "running"
                      THEN [cycle EXCEPT !.pos = "ready"]
                      ELSE broken(cycle)
    /\ UNCHANGED << cmplog, aborted >>

\* a deinit that keeps the corpus id
deinit_keep ==
    /\ ~aborted
    /\ cycle' = NoCycle
    /\ last' = [op |-> "deinit", pc |-> 0]
    /\ UNCHANGED << cmplog, stage, aborted >>

deinit ==
    /\ ~aborted
    /\ stage' = [stage EXCEPT !.current_corpus_id = None]
    /\ cycle' = NoCycle
    /\ last' = [op |-> "deinit", pc |-> 0]
    /\ UNCHANGED << cmplog, aborted >>

\* ---------------------------------------------------------------- specifications
\* operand values (u64::from zero-extends: the value is unchanged)
Operands == {0, 1}
Widths == {1, 2, 4, 8}

Alloc ==
    \/ \E pc \in GuestAddr, has_state \in BOOLEAN : gen_unique_cmp_ids(pc, has_state)
    \/ \E pc \in GuestAddr, has_state \in BOOLEAN : gen_hashed_cmp_ids(pc, has_state)

Scan ==
    \/ \E pc \in GuestAddr : gen_blocks_calls(pc)
    \/ disasm_step

\* the two allocators alone
InitAlloc == Init /\ routines_helper = None /\ code = Image1 /\ cpu_target = "x86_64" /\ emulation_mode = "usermode"
SpecAlloc == InitAlloc /\ [][Alloc]_vars

\* the scanner alone
InitScan == Init /\ cmplog_helper = None /\ child_helper = None /\ cpu_target = "x86_64" /\ emulation_mode = "usermode"
SpecScan == InitScan /\ [][Scan]_vars

\* the scanner on the arm target
InitArm ==
    /\ Init
    /\ cpu_target = "arm"
    /\ emulation_mode = "usermode"
    /\ code = Image6
    /\ cmplog_helper = None
    /\ child_helper = None
SpecArm == InitArm /\ [][Scan]_vars

\* the scanner of a systemmode build
InitSys ==
    /\ Init
    /\ cpu_target = "x86_64"
    /\ emulation_mode = "systemmode"
    /\ cmplog_helper = None
    /\ child_helper = None
    /\ routines_helper = Some(GuestAddr)
SpecSys == InitSys /\ [][Scan]_vars

\* the push stage, its methods called in any order
InitStage ==
    /\ Init
    /\ cpu_target = "x86_64" /\ emulation_mode = "usermode"
    /\ code = Image1
    /\ cmplog_helper = None
    /\ child_helper = None
    /\ routines_helper = None
NextStage ==
    \/ \E id \in CorpusIds : set_current_corpus_id(id)
    \/ \E sched \in SchedulerNext, r \in below(DEFAULT_MUTATIONAL_MAX_ITERATIONS) : init(sched, r)
    \/ \E corpus_ok \in BOOLEAN, mutate_ok \in BOOLEAN : pre_exec(corpus_ok, mutate_ok)
    \/ \E evaluate_ok \in BOOLEAN, mutator_ok \in BOOLEAN : post_exec(evaluate_ok, mutator_ok)
    \/ deinit
SpecStage == InitStage /\ [][NextStage]_vars

\* the hashed generator and the recorder
Exec == \E n \in Widths, v0 \in Operands, v1 \in Operands : exec_cmp(n, v0, v1)
Hashed == \E pc \in GuestAddr, has_state \in BOOLEAN : gen_hashed_cmp_ids(pc, has_state)
InitRec == Init /\ cmplog_helper = None /\ routines_helper = None /\ code = Image1 /\ cpu_target = "x86_64" /\ emulation_mode = "usermode"
NextRec == Hashed \/ Exec
SpecRec == InitRec /\ [][NextRec]_vars

\* every generator behind a gate that denies address 1, and the recorder
GateAddr == {0, 1}
InitGate ==
    /\ Init
    /\ cpu_target = "x86_64" /\ emulation_mode = "usermode"
    /\ code = Image1
    /\ cmplog_helper = Some(GuestAddr \ {1})
    /\ child_helper = Some(GuestAddr \ {1})
    /\ routines_helper = Some(GuestAddr \ {1})
NextGate ==
    \/ \E pc \in GateAddr, has_state \in BOOLEAN : gen_unique_cmp_ids(pc, has_state)
    \/ \E pc \in GateAddr, has_state \in BOOLEAN : gen_hashed_cmp_ids(pc, has_state)
    \/ \E pc \in GateAddr : gen_blocks_calls(pc)
    \/ disasm_step
    \/ Exec
SpecGate == InitGate /\ [][NextGate]_vars

\* the scanner and the call-site hook
InitCall ==
    /\ Init
    /\ cpu_target = "x86_64" /\ emulation_mode = "usermode"
    /\ code = Image2
    /\ cmplog_helper = None
    /\ child_helper = None
    /\ routines_helper = Some(GuestAddr)
NextCall ==
    \/ \E pc \in {0, 2} : gen_blocks_calls(pc)
    \/ disasm_step
    \/ \E i \in 1 .. MaxHooks, r0 \in ArgReads, r1 \in ArgReads : on_call(i, r0, r1)
    \/ \E v \in {0, 1} : set_cmplog_enabled(v)
SpecCall == InitCall /\ [][NextCall]_vars

\* everything that produces a slot id
InitIds ==
    /\ Init
    /\ cpu_target = "x86_64" /\ emulation_mode = "usermode"
    /\ code = Image2
    /\ cmplog_helper = Some(GuestAddr)
    /\ child_helper = Some(GuestAddr)
    /\ routines_helper = Some(GuestAddr)
NextIds == Alloc \/ Scan
SpecIds == InitIds /\ [][NextIds]_vars

\* ---------------------------------------------------------------- claims
\* the helper whose filter a generator consults
helper_of(op) ==
    CASE op = "gen_unique_cmp_ids" -> cmplog_helper
      [] op = "gen_hashed_cmp_ids" -> child_helper
      [] op = "gen_blocks_calls" -> routines_helper
      [] OTHER -> None

\* the generator op has a helper whose filter does not allow pc
denied(op, pc) == helper_of(op) # None /\ ~allowed(helper_of(op)[1], pc)

first_of(pc) == CHOOSE i \in DOMAIN alloc_log : alloc_log[i][1] = pc

\* C1: every Some(id) that gen_unique_cmp_ids returns for an address is the id
\* its first call for that address returned
C1_StableIdempotent ==
    (last.op = "gen_unique_cmp_ids" /\ is_some(ret)) =>
        /\ last.pc \in logged(alloc_log)
        /\ unwrap(ret) = alloc_log[first_of(last.pc)][2]

\* the first address is looked up again after the counter has wrapped
C1_Witness ==
    /\ Len(alloc_log) > CMPLOG_MAP_W
    /\ last.op = "gen_unique_cmp_ids"
    /\ last.pc = alloc_log[1][1]
    /\ ret = Some(alloc_log[1][2])

\* C2: every id returned by a generator, bound to a call-site hook or stored in
\* the metadata, and the counter, lie in 0 .. CMPLOG_MAP_W - 1
C2_IdsInRange ==
    /\ is_some(ret) => unwrap(ret) \in Rows
    /\ is_some(site) => unwrap(site).id \in Rows
    /\ \A i \in DOMAIN hooks : hooks[i].k \in Rows
    /\ is_some(metadata) =>
        /\ unwrap(metadata).current_id \in Rows
        /\ \A a \in DOMAIN unwrap(metadata).map : unwrap(metadata).map[a] \in Rows

\* the counter has wrapped, a hook is installed and the hashed generator returned
C2_Witness ==
    /\ Len(alloc_log) > CMPLOG_MAP_W
    /\ hooks # << >>
    /\ last.op = "gen_hashed_cmp_ids"
    /\ is_some(ret)

\* C3: the k-th distinct address (from 0) allocated by gen_unique_cmp_ids gets
\* id k mod CMPLOG_MAP_W
C3_RingOrder ==
    \A i \in DOMAIN alloc_log : alloc_log[i][2] = (i - 1) % CMPLOG_MAP_W

\* the address after CMPLOG_MAP_W distinct ones got id 0 and the first address
\* is looked up again
C3_Witness ==
    /\ Len(alloc_log) = CMPLOG_MAP_W + 1
    /\ alloc_log[CMPLOG_MAP_W + 1][2] = 0
    /\ last.op = "gen_unique_cmp_ids"
    /\ last.pc = alloc_log[1][1]
    /\ ret = Some(0)

\* C4: gen_hashed_cmp_ids returns, for an address its filter allows, the hash of
\* the address modulo CMPLOG_MAP_W whatever the state, and changes neither the
\* metadata nor any other state
C4_HashedPure ==
    [][last'.op = "gen_hashed_cmp_ids" =>
          /\ ~denied("gen_hashed_cmp_ids", last'.pc) =>
                ret' = Some(hash_me(last'.pc) % CMPLOG_MAP_W)
          /\ UNCHANGED << helpers, env, push_stage, metadata, cmplog_map, hooks, scan, aborted,
                          alloc_log >>]_vars

\* the hashed id of an address differs from the id the metadata holds for it
C4_Witness ==
    /\ last.op = "gen_hashed_cmp_ids"
    /\ is_some(ret)
    /\ is_some(metadata)
    /\ last.pc \in DOMAIN unwrap(metadata).map
    /\ unwrap(metadata).map[last.pc] # unwrap(ret)

\* C5: a generator called for an address its filter rejects returns None and
\* changes nothing: no metadata, map entry, counter step or hook, and the
\* comparison is not instrumented, so no trace call writes a row for it
C5_RejectedNoEffect ==
    [][/\ (last'.op \in {"gen_unique_cmp_ids", "gen_hashed_cmp_ids", "gen_blocks_calls"}
           /\ denied(last'.op, last'.pc)) =>
              /\ ret' = None
              /\ ~scan'.active
              /\ last'.op # "gen_blocks_calls" => site' = None
              /\ UNCHANGED << helpers, env, push_stage, metadata, cmplog_map, hooks, aborted, alloc_log >>
       /\ last'.op = "trace_cmp" =>
              /\ is_some(site)
              /\ last'.pc = unwrap(site).pc
              /\ ~denied("gen_unique_cmp_ids", last'.pc)
                    \/ ~denied("gen_hashed_cmp_ids", last'.pc)]_vars

\* a rejected call on a state that holds metadata, a hook and a written row
C5_Witness ==
    /\ last.op = "gen_unique_cmp_ids"
    /\ denied(last.op, last.pc)
    /\ ret = None
    /\ is_some(metadata)
    /\ hooks # << >>
    /\ \E k \in Rows : is_some(cmplog_map[k])

\* C6: trace_cmpN(id, a, b) leaves a, b and N in row id, whatever the row held,
\* and leaves every other row as it was
C6_RecordOverwrites ==
    [][last'.op = "trace_cmp" =>
          /\ cmplog_map'[last'.id] =
                Some([shape |-> last'.n, v0 |-> last'.v0, v1 |-> last'.v1])
          /\ \A k \in Rows \ {last'.id} : cmplog_map'[k] = cmplog_map[k]]_vars

\* a row written before is written again, with two bytes, while another row
\* holds a value
C6_Witness ==
    /\ last.op = "trace_cmp"
    /\ last.over
    /\ last.n = 2
    /\ cmplog_map[last.id] = Some([shape |-> 2, v0 |-> last.v0, v1 |-> last.v1])
    /\ \E k \in Rows \ {last.id} : is_some(cmplog_map[k])

\* ---- the scanner
is_call(insn) == \E i \in DOMAIN insn.groups : insn.groups[i] = "CS_GRP_CALL"
is_stop(insn) == \E i \in DOMAIN insn.groups : insn.groups[i] \in StopGroups
first_stop(groups) ==
    CHOOSE i \in DOMAIN groups :
        groups[i] \in StopGroups /\ \A j \in 1 .. (i - 1) : groups[j] \notin StopGroups
call_listed_first(insn) ==
    \E i \in DOMAIN insn.groups :
        insn.groups[i] = "CS_GRP_CALL" /\ (is_stop(insn) => i < first_stop(insn.groups))

RECURSIVE calls_before_stop(_, _)
\* the addresses of the calls that sequential decoding from a reaches before
\* the first instruction of a stop group or the first decode failure
calls_before_stop(image, a) ==
    LET insn == disasm_count(image, a)
    IN IF insn.decode # "insn" \/ is_stop(insn) THEN << >>
       ELSE (IF is_call(insn) THEN << a >> ELSE << >>)
                \o calls_before_stop(image, a + insn.len)

RECURSIVE calls_up_to_stop(_, _)
\* the same, with the stopping instruction when it lists its call group first
calls_up_to_stop(image, a) ==
    LET insn == disasm_count(image, a)
        here == IF call_listed_first(insn) THEN << a >> ELSE << >>
    IN IF insn.decode # "insn" THEN << >>
       ELSE IF is_stop(insn) THEN here
       ELSE here \o calls_up_to_stop(image, a + insn.len)

\* the addresses hooked by the last scan, in order
scan_addrs == [i \in 1 .. (Len(hooks) + 1 - scan.first) |-> hooks[scan.first + i - 1].addr]

\* gen_blocks_calls returned from a scan of a block its filter allows
scan_done ==
    /\ last.op = "gen_blocks_calls"
    /\ ~scan.active
    /\ ~aborted
    /\ is_some(routines_helper)
    /\ must_instrument(routines_helper, last.pc)

\* C7 as stated: a finished scan has hooked exactly the calls before the first
\* instruction of a stop group
C7_HooksBeforeStop == scan_done => scan_addrs = calls_before_stop(code, last.pc)

\* C7: a finished scan has hooked exactly the instructions of the call group up
\* to the first instruction of a stop group, that one included only when it
\* lists its call group before its stop group
C7_HooksUpToStop == scan_done => scan_addrs = calls_up_to_stop(code, last.pc)

\* one call followed by a return: one hook, none at the call behind the return
C7_Witness ==
    /\ scan_done
    /\ code = Image1
    /\ last.pc = 0
    /\ scan_addrs = << 1 >>

\* the scan ended at a decode failure
decode_fails(image, a) == disasm_count(image, a).decode \in {"err", "empty"}
scan_failed == scan_done /\ decode_fails(code, scan.iaddr)

\* C8: the loop iteration whose decode fails ends the scan with None returned
\* and no panic; the calls decoded before it are hooked, and no step removes
\* an installed hook
C8_DecodeFailureKeepsHooks ==
    /\ [](scan_failed =>
            /\ ret = None
            /\ \A i \in DOMAIN calls_up_to_stop(code, last.pc) :
                  \E j \in scan.first .. Len(hooks) :
                      hooks[j].addr = calls_up_to_stop(code, last.pc)[i])
    /\ [][/\ (scan.active /\ decode_fails(code, scan.iaddr)) =>
                (~scan'.active /\ hooks' = hooks /\ ~aborted' /\ ret' = None)
          /\ \A i \in DOMAIN hooks : i \in DOMAIN hooks' /\ hooks'[i] = hooks[i]]_vars

\* the scan ended at bytes that do not decode, behind two calls it hooked
C8_Witness ==
    /\ scan_failed
    /\ Len(scan_addrs) = 2
    /\ scan_addrs[1] # scan_addrs[2]

\* C9 as stated: no address holds two call-site hooks
C9_AtMostOneHook ==
    \A i, j \in DOMAIN hooks : hooks[i].addr = hooks[j].addr => i = j

\* C10 as stated: the id of a hook is the hashed id of the hooked address
C10_IdOfCallAddress ==
    \A i \in DOMAIN hooks : hooks[i].k = hash_me(hooks[i].addr) % CMPLOG_MAP_W

\* C11: on_call writes the buffer pair into the row of the hook's id when
\* CMPLOG_ENABLED is on and both arguments were read and are not null, and
\* leaves the capture map unchanged in every other case
C11_OnCallWrites ==
    [][last'.op = "on_call" =>
          IF /\ last'.enabled # 0
             /\ last'.r0 \notin {None, Some(0)}
             /\ last'.r1 \notin {None, Some(0)}
          THEN /\ cmplog_map'[last'.k] =
                    Some([shape |-> 0, v0 |-> last'.r0[1] + guest_base,
                          v1 |-> last'.r1[1] + guest_base])
               /\ \A k \in Rows \ {last'.k} : cmplog_map'[k] = cmplog_map[k]
          ELSE cmplog_map' = cmplog_map]_vars

\* the hook wrote a row, and a hook called with a null argument left it alone
C11_Witness ==
    /\ last.op = "on_call"
    /\ last.enabled # 0
    /\ last.r0 = Some(0)
    /\ last.r1 = Some(2)
    /\ is_some(cmplog_map[last.k])
\* C12 as stated: the process panics only in gen_unique_cmp_ids called for an
\* address its filter allows
C12_OnlyAllocatorAborts ==
    aborted => (last.op = "gen_unique_cmp_ids" /\ ~denied(last.op, last.pc))
\* C13 as stated: no call-site hook sits at an address that the filter of the
\* routines helper does not allow
C13_NoHookAtDenied ==
    \A i \in DOMAIN hooks : ~denied("gen_blocks_calls", hooks[i].addr)
\* C14 as stated: at every decode step the mode of the decoder is derived, for
\* that step, from the address being decoded
C14_ModeRederived ==
    (cpu_target = "arm" /\ scan.active) =>
        cs_mode = [mode |-> arch_mode(scan.iaddr), from |-> Some(scan.iaddr)]

\* C14: the mode is derived once per scan, from the block start, and no decode
\* step sets it again; it is the mode of the low bit of every address the
\* scan decodes, because the low bit of the decoded address never changes
C14_ModeOfBlockStart ==
    /\ []((cpu_target = "arm" /\ scan.active) =>
            /\ cs_mode = [mode |-> arch_mode(scan.pc), from |-> Some(scan.pc)]
            /\ cs_mode.mode = arch_mode(scan.iaddr))
    /\ [][(scan.active /\ last' = last) => cs_mode' = cs_mode]_vars

\* a Thumb block at its second decode step
C14_Witness ==
    /\ cpu_target = "arm"
    /\ scan.active
    /\ scan.iaddr # scan.pc
    /\ cs_mode.mode = "Thumb"
\* ---- the allocator's metadata
\* the metadata of the fuzzing state, empty when it was not added yet
meta_now == IF metadata = None THEN QemuCmpsMapMetadata_new ELSE metadata[1]

\* C15: a gen_unique_cmp_ids call that returns an id for an address of the map
\* leaves map and counter unchanged; one for a new address adds the entry
\* (address, old counter), advances the counter by one modulo W and keeps
\* every entry the map had; no other step touches the metadata
C15_AllocationFrame ==
    [][IF last'.op = "gen_unique_cmp_ids" /\ is_some(ret')
       THEN LET m0 == meta_now
                m1 == metadata'[1]
                pc == last'.pc
            IN IF pc \in DOMAIN m0.map
               THEN metadata' = metadata
               ELSE /\ DOMAIN m1.map = DOMAIN m0.map \cup {pc}
                    /\ m1.map[pc] = m0.current_id
                    /\ m1.current_id = (m0.current_id + 1) % CMPLOG_MAP_W
                    /\ \A a \in DOMAIN m0.map : m1.map[a] = m0.map[a]
       ELSE metadata' = metadata]_vars

\* the counter wrapped, the map kept the entries from before the wrap, and
\* the last call was for an address that had its id already
C15_Witness ==
    /\ last.op = "gen_unique_cmp_ids"
    /\ is_some(ret)
    /\ Cardinality(DOMAIN meta_now.map) > CMPLOG_MAP_W
    /\ alloc_log[Len(alloc_log)][1] # last.pc
    /\ \A i \in DOMAIN alloc_log : meta_now.map[alloc_log[i][1]] = alloc_log[i][2]

\* C17: while the map holds at most W addresses no two of them share an id,
\* and the counter is the number of entries modulo W
C17_InjectiveAndCounted ==
    /\ Cardinality(DOMAIN meta_now.map) <= CMPLOG_MAP_W =>
            \A a, b \in DOMAIN meta_now.map :
                meta_now.map[a] = meta_now.map[b] => a = b
    /\ meta_now.current_id = Cardinality(DOMAIN meta_now.map) % CMPLOG_MAP_W

\* W addresses allocated, with W different ids, and the counter back at 0
C17_Witness ==
    /\ Cardinality(DOMAIN meta_now.map) = CMPLOG_MAP_W
    /\ Cardinality({meta_now.map[a] : a \in DOMAIN meta_now.map}) = CMPLOG_MAP_W
    /\ meta_now.current_id = 0
in_cycle == cycle.pos \in {"ready", "running", "finished"}

\* C18 as stated: when pre_exec returns None at the end of a cycle it has
\* returned an input testcases_to_do times
C18_ReturnsToDoInputs ==
    cycle.pos = "finished" => cycle.returned = stage.testcases_to_do

\* C18: in a cycle pre_exec returns None exactly when testcases_done has
\* reached testcases_to_do, never before; testcases_done grows by one per
\* successful post_exec and stays within testcases_to_do; the inputs and the
\* errors that pre_exec returned add up to testcases_to_do at the end
C18_CycleCounts ==
    /\ [](in_cycle =>
            /\ stage.testcases_done <= stage.testcases_to_do
            /\ cycle.pos = "ready" =>
                  cycle.returned + cycle.errors = stage.testcases_done
            /\ cycle.pos = "running" =>
                  /\ cycle.returned + cycle.errors = stage.testcases_done + 1
                  /\ stage.testcases_done < stage.testcases_to_do
            /\ cycle.pos = "finished" =>
                  /\ stage.testcases_done = stage.testcases_to_do
                  /\ cycle.returned + cycle.errors = stage.testcases_to_do
                  /\ cycle.errors = 0 => cycle.returned = stage.testcases_to_do)
    /\ [][/\ last'.op = "post_exec" =>
                /\ stage'.testcases_to_do = stage.testcases_to_do
                /\ stage'.testcases_done =
                      stage.testcases_done + (IF last'.res = "Ok" THEN 1 ELSE 0)
          /\ (cycle.pos = "ready" /\ last'.op = "pre_exec") =>
                (last'.res = "None" <=> stage.testcases_done = stage.testcases_to_do)]_vars

\* a cycle of the most iterations ended, one of its pre_exec calls having
\* returned an error
C18_Witness ==
    /\ cycle.pos = "finished"
    /\ stage.testcases_to_do = DEFAULT_MUTATIONAL_MAX_ITERATIONS
    /\ cycle.errors = 1
    /\ cycle.returned = DEFAULT_MUTATIONAL_MAX_ITERATIONS - 1

\* C19: a successful init leaves testcases_done = 0 and
\* 1 <= testcases_to_do <= DEFAULT_MUTATIONAL_MAX_ITERATIONS
C19_InitCounters ==
    [][(last'.op = "init" /\ last'.res = "Ok") =>
          /\ stage'.testcases_done = 0
          /\ stage'.testcases_to_do >= 1
          /\ stage'.testcases_to_do <= DEFAULT_MUTATIONAL_MAX_ITERATIONS]_vars

\* init drew the most iterations on a stage whose testcases_done had passed
\* its testcases_to_do
C19_Witness ==
    /\ last.op = "init"
    /\ last.res = "Ok"
    /\ last.before.testcases_done > last.before.testcases_to_do
    /\ last.before.testcases_to_do > 0
    /\ stage.testcases_to_do = DEFAULT_MUTATIONAL_MAX_ITERATIONS
    /\ stage.testcases_done = 0

\* C20 as stated: a pre_exec between init and deinit reads the corpus id
\* that init worked on
C20_PreExecReadsInitId ==
    (last.op = "pre_exec" /\ is_some(last.read) /\ is_some(cycle.init_id)) =>
        last.read = cycle.init_id

\* C20: init asks the scheduler exactly when no corpus id is set and
\* otherwise works on the id that is set; deinit clears the id, and it stays
\* clear until set_current_corpus_id or init; a pre_exec between init and
\* deinit reads the id init worked on or, after a set_current_corpus_id in
\* between, the id set last
C20_CorpusIdOfCycle ==
    /\ [](cycle.cleared => stage.current_corpus_id = None)
    /\ []((last.op = "pre_exec" /\ is_some(last.read) /\ is_some(cycle.init_id)) =>
            last.read = cycle.work_id)
    /\ [][/\ last'.op = "init" =>
                /\ last'.asked <=> stage.current_corpus_id = None
                /\ cycle.cleared => last'.asked
                /\ last'.res = "Ok" =>
                      stage'.current_corpus_id =
                          (IF last'.asked THEN last'.sched ELSE stage.current_corpus_id)
                /\ last'.res = "Err" => (last'.asked /\ stage' = stage)
          /\ last'.op = "deinit" => stage'.current_corpus_id = None]_vars

\* a pre_exec read the id that set_current_corpus_id set after init
C20_Witness ==
    /\ last.op = "pre_exec"
    /\ last.res = "Input"
    /\ cycle.init_id = Some(0)
    /\ last.read = Some(1)
    /\ cycle.work_id = Some(1)
====
